---- MODULE Spec2Model ----
(***************************************************************************)
(* Model of the page-detail view of tabby-ui                               *)
(* (ee/tabby-ui/app/pages/components/page-main.tsx): the reducer that      *)
(* folds the createThreadToPageRun subscription into page / sections       *)
(* state, the merge of paginated historical sections, and the controller   *)
(* that opens and stops the subscription.                                  *)
(*                                                                         *)
(* Conventions.  A string (content, title) is the sequence of its          *)
(* fragments, so that `+` is \o and order is visible.  An optional value   *)
(* (`T | undefined`) is a sequence of length 0 or 1.  An id that is        *)
(* `undefined` is NoId.  Timestamps of PageItem are left out: no handler   *)
(* reads them.                                                             *)
(***************************************************************************)
EXTENDS Integers, Sequences, FiniteSets, TLC

VARIABLES
    \* router and shared store
    pathname,                \* useRouterStuff().pathname, as its '-'-separated parts after /pages/
    pendingThreadId,         \* usePageStore(state => state.pendingThreadId)
    \* component state (useState / useRef)
    activePathname,
    isPathnameInitialized,
    isGeneratingPageContent,
    pendingSectionIds,
    stopButtonVisible,
    isReady,
    currentSectionId,
    initializing,
    stopPc,                  \* position inside stop: "idle", or "unsubscribed" between its first call and its resets
    pageId,
    page,
    sections,
    isLoading,
    error,
    unsubscribeFn,
    afterCursor,
    \* position of the effects of the first two commits
    effectPass,
    \* the subscription transport (client.subscription)
    subscribed,              \* handles of the subscriptions that still deliver
    subsOpened,              \* number of subscriptions opened so far
    closurePageId,           \* `pageId` as captured by the processPageStream closure handed to subscribe
    subscriptionThreadId,    \* variables.threadId of the subscription opened last
    \* the urql queries
    fetchingPages,           \* a listPages request is in flight
    fetchingPageSections,    \* a listPageSections request is in flight
    pageSectionData,
    pageSectionsError,
    pagesData,
    toasts,                  \* toast.error calls so far
    deletesInFlight,         \* deletePageSection mutations without a result yet, each with the `sections` its closure holds
    nDeletes,                \* deletePageSection mutations sent so far
    confirmedDeleted,        \* history: ids whose deletePageSection returned a truthy result
    \* history variables (not program state)
    lastOp,                  \* the handler that ran last and its input
    prevOp,                  \* the handler that ran before it
    pre,                     \* the view state immediately before that handler
    nEvents,                 \* stream results delivered so far
    nFetches,                \* listPageSections responses delivered so far
    pageDeltaLog,            \* all PageContentDelta deltas delivered, in delivery order
    nPageCreated,            \* PageCreated events delivered
    deltaBeforePage,         \* a PageContentDelta was delivered before any PageCreated
    secDeltaLog,             \* per section id: all PageSectionContentDelta deltas delivered, in order
    nSectionsCreated,        \* PageSectionsCreated events delivered
    secDeltaBeforeCreated,   \* a PageSectionContentDelta was delivered before any PageSectionsCreated
    mergedLog                \* the edges of every merged listPageSections response, in fetch order

routeVars == <<pathname, activePathname, isPathnameInitialized, effectPass>>
ctlVars == <<pendingThreadId, initializing, stopPc, unsubscribeFn, subscribed, subsOpened,
             closurePageId, subscriptionThreadId, isLoading, error, isReady, stopButtonVisible>>
reducerVars == <<pageId, page, sections, isGeneratingPageContent, pendingSectionIds,
                 currentSectionId>>
histVars == <<afterCursor, fetchingPages, fetchingPageSections, pageSectionData, pageSectionsError,
              pagesData, toasts, deletesInFlight, nDeletes, confirmedDeleted>>
streamGhost == <<nEvents, pageDeltaLog, nPageCreated, deltaBeforePage, secDeltaLog,
                 nSectionsCreated, secDeltaBeforeCreated>>
histGhost == <<nFetches, mergedLog>>
vars == <<routeVars, ctlVars, reducerVars, histVars, streamGhost, histGhost, lastOp, prevOp,
          pre>>

----------------------------------------------------------------------------
\* Bounds of the model

MaxEvents == 4
MaxFetches == 3
MaxDeletes == 2

----------------------------------------------------------------------------
\* Values

NoId == "undefined"
NoHandle == 0
NoError == "undefined"
PageIds == {"p1", "p2"}
ThreadIds == {"t1"}
Deltas == {"a", "b"}
\* ids the stream creates sections for, and one it never creates
StreamSectionIds == {"s1", "s2"}
StraySectionId == "s9"
EventSectionIds == StreamSectionIds \cup {StraySectionId}
\* a title, as the parts its slug is made of ('' slugifies to no part)
Titles == {<<>>, <<"my", "page">>}
TitleOf(id) == <<"title", id>>

\* PageSectionsCreated payloads: data.sections as a list of ids (title is TitleOf(id))
SectionPayloads == {<<"s1">>, <<"s1", "s2">>}

\* Historical section records: two versions of h2, so that the first
\* occurrence of an id can be told from a later one
HistSection(id, content) ==
    [id |-> id, title |-> TitleOf(id), pageId |-> "p1", content |-> <<content>>]
HistPages ==
    {<<>>,
     <<HistSection("h1", "a"), HistSection("h2", "a")>>,
     <<HistSection("h2", "b"), HistSection("h3", "a")>>,
     <<HistSection("h3", "a")>>}
Cursors == {"c1", "c2"}
\* a listPageSections result: data.pageSections.edges (as nodes), pageInfo, and the stale flag
SectionResponses ==
    [edges : HistPages, hasNextPage : BOOLEAN, endCursor : Cursors \cup {NoId},
     stale : BOOLEAN]
\* error.message of a failed listPageSections request: ERROR_CODE_NOT_FOUND of
\* '@/lib/constants', or any other message
ERROR_CODE_NOT_FOUND == "NOT_FOUND"
SectionErrors == {ERROR_CODE_NOT_FOUND, "fetch error"}
\* a listPages result: the node of the first edge, if any
PageResponses ==
    {<<>>} \cup {<<[id |-> i, authorId |-> "author", title |-> <<"my", "page">>,
                  content |-> <<c>>]>> : i \in PageIds, c \in Deltas}

NoData == [type |-> "none", id |-> NoId, title |-> <<>>, delta |-> "", sections |-> <<>>]

\* CreateThreadToPageRunSubscription['createThreadToPageRun'] plus one tag the switch does not know
StreamEvents ==
    {[NoData EXCEPT !.type = "PageCreated", !.id = i, !.title = t] : i \in PageIds, t \in Titles}
    \cup {[NoData EXCEPT !.type = "PageContentDelta", !.delta = d] : d \in Deltas}
    \cup {[NoData EXCEPT !.type = "PageContentCompleted", !.id = i] : i \in {"p1"}}
    \cup {[NoData EXCEPT !.type = "PageSectionsCreated", !.sections = s] : s \in SectionPayloads}
    \cup {[NoData EXCEPT !.type = "PageSectionContentDelta", !.id = i, !.delta = d] :
            i \in EventSectionIds, d \in Deltas}
    \cup {[NoData EXCEPT !.type = "PageSectionContentCompleted", !.id = i] : i \in EventSectionIds}
    \cup {[NoData EXCEPT !.type = "PageCompleted", !.id = i] : i \in {"p1"}}
    \cup {[NoData EXCEPT !.type = "Unknown"]}

----------------------------------------------------------------------------
\* Pure helpers

Ids(list) == {list[i].id : i \in 1..Len(list)}

\* `prev || []`
OrEmpty(opt) == IF opt = <<>> THEN <<>> ELSE opt[1]

\* pageIdFromURL: activePathname.match(/^\/pages\/(.*)/)?.[1]?.split('-').pop()
pageIdFromURL(path) == IF path = <<>> THEN NoId ELSE path[Len(path)]

\* updatePageURL: compact([slugify(title), id]).join('-') under /pages/
updatePageURL(p) == p.title \o <<p.id>>

----------------------------------------------------------------------------
\* The state updaters of processPageStream

\* case 'PageCreated': nextPage
nextPage(data) == [id |-> data.id, authorId |-> "author", title |-> data.title, content |-> <<>>]

\* a variant that puts the delta in front of the content
prependPageDelta(prev, delta) ==
    IF prev = <<>> THEN prev
    ELSE <<[prev[1] EXCEPT !.content = <<delta>> \o @]>>

\* case 'PageContentDelta': setPage(prev => ...)
appendPageDelta(prev, delta) ==
    IF prev = <<>> THEN prev
    ELSE <<[prev[1] EXCEPT !.content = @ \o <<delta>>]>>

\* case 'PageSectionsCreated': nextSections
nextSections(payload, capturedPageId) ==
    [i \in 1..Len(payload) |->
        [id |-> payload[i], title |-> TitleOf(payload[i]), pageId |-> capturedPageId,
         content |-> <<>>]]

\* a variant that appends the delta to every section once the id is found
appendDeltaToAll(prev, id, delta) ==
    IF prev = <<>> \/ id \notin Ids(OrEmpty(prev)) THEN prev
    ELSE <<[i \in 1..Len(prev[1]) |-> [prev[1][i] EXCEPT !.content = @ \o <<delta>>]]>>

\* case 'PageSectionContentDelta': setSections(prev => ...)
appendSectionDelta(prev, id, delta) ==
    IF prev = <<>> \/ id \notin Ids(OrEmpty(prev)) THEN prev
    ELSE <<[i \in 1..Len(prev[1]) |->
              IF prev[1][i].id = id
              THEN [prev[1][i] EXCEPT !.content = @ \o <<delta>>]
              ELSE prev[1][i]]>>

\* a variant that toggles membership instead of removing
togglePending(prev, id) ==
    IF id \notin prev THEN prev \cup {id} ELSE prev \ {id}

\* case 'PageSectionContentCompleted': setPendingSectionIds(prev => ...)
removePending(prev, id) ==
    IF id \notin prev THEN prev ELSE prev \ {id}

----------------------------------------------------------------------------
\* The merge of a page of historical sections

\* a variant of uniqBy that keeps the last occurrence of each id
RECURSIVE uniqByLast(_)
uniqByLast(array) ==
    IF array = <<>> THEN <<>>
    ELSE IF Head(array).id \in Ids(Tail(array))
         THEN uniqByLast(Tail(array))
         ELSE <<Head(array)>> \o uniqByLast(Tail(array))

\* lodash uniqBy(array, 'id'): walk the array, keep an element when its id
\* has not been seen yet
RECURSIVE uniqByFrom(_, _)
uniqByFrom(array, seen) ==
    IF array = <<>> THEN <<>>
    ELSE IF Head(array).id \in seen
         THEN uniqByFrom(Tail(array), seen)
         ELSE <<Head(array)>> \o uniqByFrom(Tail(array), seen \cup {Head(array).id})

uniqBy(array) == uniqByFrom(array, {})

\* a variant of the merge that does not deduplicate
appendSections(prev, messages) == <<OrEmpty(prev) \o messages>>

\* setSections(prev => uniqBy([...(prev || []), ...messages], 'id'))
mergeSections(prev, messages) == <<uniqBy(OrEmpty(prev) \o messages)>>

----------------------------------------------------------------------------
\* History bookkeeping

ViewState ==
    [page |-> page, sections |-> sections, pendingSectionIds |-> pendingSectionIds,
     currentSectionId |-> currentSectionId,
     isGeneratingPageContent |-> isGeneratingPageContent, isLoading |-> isLoading,
     unsubscribeFn |-> unsubscribeFn, subscribed |-> subscribed, pageId |-> pageId,
     isReady |-> isReady, error |-> error, pathname |-> pathname,
     pendingThreadId |-> pendingThreadId, toasts |-> toasts]

NoResponse == [edges |-> <<>>, hasNextPage |-> FALSE, endCursor |-> NoId, stale |-> FALSE]

Record(op, data) ==
    /\ lastOp' = [op |-> op, data |-> data, resp |-> NoResponse]
    /\ prevOp' = lastOp.op
    /\ pre' = ViewState

Bump(n) == IF n < 2 THEN n + 1 ELSE n

\* what the history variables note about one delivered stream result
LogEvent(data) ==
    /\ nEvents' = nEvents + 1
    /\ pageDeltaLog' = IF data.type = "PageContentDelta"
                       THEN pageDeltaLog \o <<data.delta>> ELSE pageDeltaLog
    /\ nPageCreated' = IF data.type = "PageCreated" THEN Bump(nPageCreated) ELSE nPageCreated
    /\ deltaBeforePage' =
           (deltaBeforePage \/ (data.type = "PageContentDelta" /\ nPageCreated = 0))
    /\ secDeltaLog' = IF data.type = "PageSectionContentDelta"
                      THEN [secDeltaLog EXCEPT ![data.id] = @ \o <<data.delta>>]
                      ELSE secDeltaLog
    /\ nSectionsCreated' = IF data.type = "PageSectionsCreated"
                           THEN Bump(nSectionsCreated) ELSE nSectionsCreated
    /\ secDeltaBeforeCreated' =
           (secDeltaBeforeCreated
            \/ (data.type = "PageSectionContentDelta" /\ nSectionsCreated = 0))

----------------------------------------------------------------------------
\* Construction: the useState / useRef initial values of Page()

InitialPaths == {<<>>, <<"my", "page", "p1">>}

Init ==
    /\ pathname \in InitialPaths
    /\ pendingThreadId \in {NoId} \cup ThreadIds
    /\ activePathname = <<>>
    /\ isPathnameInitialized = FALSE
    /\ isGeneratingPageContent = FALSE
    /\ pendingSectionIds = {}
    /\ stopButtonVisible = TRUE
    /\ isReady = (pendingThreadId # NoId)
    /\ currentSectionId = NoId
    /\ initializing = FALSE
    /\ stopPc = "idle"
    /\ pageId = NoId
    /\ page = <<>>
    /\ sections = <<>>
    /\ isLoading = FALSE
    /\ error = NoError
    /\ unsubscribeFn = NoHandle
    /\ afterCursor = NoId
    /\ effectPass = 0
    /\ subscribed = {}
    /\ subsOpened = 0
    /\ closurePageId = NoId
    /\ subscriptionThreadId = NoId
    /\ fetchingPages = FALSE
    /\ fetchingPageSections = FALSE
    /\ pageSectionData = <<>>
    /\ pageSectionsError = NoError
    /\ pagesData = <<>>
    /\ toasts = 0
    /\ deletesInFlight = {}
    /\ nDeletes = 0
    /\ confirmedDeleted = {}
    /\ lastOp = [op |-> "construct", data |-> NoData, resp |-> NoResponse]
    /\ prevOp = "construct"
    /\ pre = [page |-> <<>>, sections |-> <<>>, pendingSectionIds |-> {},
              currentSectionId |-> NoId, isGeneratingPageContent |-> FALSE,
              isLoading |-> FALSE, unsubscribeFn |-> NoHandle, subscribed |-> {},
              pageId |-> NoId, isReady |-> isReady, error |-> NoError,
              pathname |-> pathname, pendingThreadId |-> pendingThreadId,
              toasts |-> 0]
    /\ nEvents = 0
    /\ nFetches = 0
    /\ pageDeltaLog = <<>>
    /\ nPageCreated = 0
    /\ deltaBeforePage = FALSE
    /\ secDeltaLog = [i \in EventSectionIds |-> <<>>]
    /\ nSectionsCreated = 0
    /\ secDeltaBeforeCreated = FALSE
    /\ mergedLog = <<>>

----------------------------------------------------------------------------
\* Effects of the first two commits

\* First commit.  activePathname is still undefined, so pageIdFromURL is
\* undefined and isPathnameInitialized is false in every closure: the
\* pathname effect records the pathname, the init effect does nothing, the
\* stop-button effect hides the button (isLoading is false).
MountEffects ==
    /\ effectPass = 0
    /\ effectPass' = 1
    /\ activePathname' = pathname
    /\ isPathnameInitialized' = TRUE
    /\ stopButtonVisible' = FALSE
    /\ Record("MountEffects", NoData)
    /\ UNCHANGED <<pathname, pendingThreadId, initializing, stopPc, unsubscribeFn, subscribed,
                   subsOpened, closurePageId, subscriptionThreadId, isLoading, error, isReady>>
    /\ UNCHANGED <<reducerVars, histVars, streamGhost, histGhost>>

\* a variant that subscribes twice, once for the data and once for the errors
convertThreadToPageTwice(threadId) ==
    /\ subsOpened' = subsOpened + 2
    /\ subscribed' = subscribed \cup {subsOpened + 1, subsOpened + 2}
    /\ unsubscribeFn' = subsOpened + 2
    /\ closurePageId' = pageId
    /\ subscriptionThreadId' = threadId

\* convertThreadToPage(threadId): open the subscription, return its unsubscribe
convertThreadToPage(threadId) ==
    /\ subsOpened' = subsOpened + 1
    /\ subscribed' = subscribed \cup {subsOpened + 1}
    /\ unsubscribeFn' = subsOpened + 1
    /\ closurePageId' = pageId
    /\ subscriptionThreadId' = threadId

\* a variant of init that leaves the token in the store
initKeepsToken ==
    IF initializing
    THEN UNCHANGED <<initializing, stopPc, isLoading, error, unsubscribeFn, subscribed,
                     subsOpened, closurePageId, subscriptionThreadId, pendingThreadId>>
    ELSE /\ initializing' = TRUE
         /\ UNCHANGED stopPc
         /\ IF pendingThreadId # NoId
            THEN /\ isLoading' = TRUE
                 /\ error' = NoError
                 /\ convertThreadToPage(pendingThreadId)
                 /\ UNCHANGED pendingThreadId
            ELSE UNCHANGED <<isLoading, error, unsubscribeFn, subscribed, subsOpened,
                             closurePageId, subscriptionThreadId, pendingThreadId>>

\* init() of the init effect
init ==
    IF initializing
    THEN UNCHANGED <<initializing, stopPc, isLoading, error, unsubscribeFn, subscribed, subsOpened,
                     closurePageId, subscriptionThreadId, pendingThreadId>>
    ELSE /\ initializing' = TRUE
         /\ UNCHANGED stopPc
         /\ IF pendingThreadId # NoId
            THEN /\ isLoading' = TRUE
                 /\ error' = NoError
                 /\ convertThreadToPage(pendingThreadId)
                 /\ pendingThreadId' = NoId
            ELSE UNCHANGED <<isLoading, error, unsubscribeFn, subscribed, subsOpened,
                             closurePageId, subscriptionThreadId, pendingThreadId>>

\* Second commit: isPathnameInitialized and pageIdFromURL have changed, so the
\* pageIdFromURL effect and the init effect run; the queries that depend on
\* pageIdFromURL are no longer paused.
InitEffects ==
    /\ effectPass = 1
    /\ effectPass' = 2
    /\ IF pageIdFromURL(activePathname) # NoId
       THEN /\ pageId' = pageIdFromURL(activePathname)
            /\ fetchingPages' = TRUE
            /\ fetchingPageSections' = ~isReady
            /\ UNCHANGED <<initializing, stopPc, isLoading, error, unsubscribeFn, subscribed,
                           subsOpened, closurePageId, subscriptionThreadId, pendingThreadId>>
       ELSE /\ init
            /\ UNCHANGED <<pageId, fetchingPages, fetchingPageSections>>
    /\ Record("InitEffects", NoData)
    /\ UNCHANGED <<pathname, activePathname, isPathnameInitialized, isReady,
                   stopButtonVisible>>
    /\ UNCHANGED <<page, sections, isGeneratingPageContent, pendingSectionIds,
                   currentSectionId>>
    /\ UNCHANGED <<afterCursor, pageSectionData, pageSectionsError, pagesData, toasts,
                   deletesInFlight, nDeletes, confirmedDeleted>>
    /\ UNCHANGED <<streamGhost, histGhost>>

\* Later commits: the pathname effect adopts a changed pathname; the
\* pageIdFromURL effect then stores the id and the queries start.
PathnameEffect ==
    /\ effectPass = 2
    /\ activePathname # pathname
    /\ activePathname' = pathname
    /\ IF pageIdFromURL(pathname) # NoId
       THEN /\ pageId' = pageIdFromURL(pathname)
            /\ fetchingPages' = TRUE
            /\ fetchingPageSections' = ~isReady
       ELSE UNCHANGED <<pageId, fetchingPages, fetchingPageSections>>
    /\ Record("PathnameEffect", NoData)
    /\ UNCHANGED <<pathname, isPathnameInitialized, effectPass, ctlVars>>
    /\ UNCHANGED <<page, sections, isGeneratingPageContent, pendingSectionIds,
                   currentSectionId>>
    /\ UNCHANGED <<afterCursor, pageSectionData, pageSectionsError, pagesData, toasts,
                   deletesInFlight, nDeletes, confirmedDeleted>>
    /\ UNCHANGED <<streamGhost, histGhost>>

----------------------------------------------------------------------------
\* Stop and the stream reducer

\* a variant of the body of stop that leaves the pending set alone
stopUpdatesKeepPending ==
    /\ subscribed' = IF unsubscribeFn # NoHandle THEN subscribed \ {unsubscribeFn}
                     ELSE subscribed
    /\ unsubscribeFn' = NoHandle
    /\ isLoading' = FALSE
    /\ isGeneratingPageContent' = FALSE
    /\ currentSectionId' = NoId
    /\ UNCHANGED pendingSectionIds

\* the body of stop: unsubscribeFn.current?.() and the five resets
stopUpdates ==
    /\ subscribed' = IF unsubscribeFn # NoHandle THEN subscribed \ {unsubscribeFn}
                     ELSE subscribed
    /\ unsubscribeFn' = NoHandle
    /\ isLoading' = FALSE
    /\ isGeneratingPageContent' = FALSE
    /\ pendingSectionIds' = {}
    /\ currentSectionId' = NoId

\* processPageStream(data): the switch on data.__typename.  The closure is
\* the one of the render in which the subscription was opened, so `pageId`
\* is closurePageId; page, sections and pendingSectionIds are read through
\* functional updaters and stop through useLatest, so those are current.
processPageStream(data) ==
    CASE data.type = "PageCreated" ->
            /\ pageId' = data.id
            /\ page' = <<nextPage(data)>>
            /\ isGeneratingPageContent' = TRUE
            /\ pathname' = updatePageURL(nextPage(data))
            /\ UNCHANGED <<sections, pendingSectionIds, currentSectionId, unsubscribeFn,
                           subscribed, isLoading>>
      [] data.type = "PageContentDelta" ->
            /\ page' = appendPageDelta(page, data.delta)
            /\ UNCHANGED <<pageId, isGeneratingPageContent, pathname, sections,
                           pendingSectionIds, currentSectionId, unsubscribeFn, subscribed,
                           isLoading>>
      [] data.type = "PageContentCompleted" ->
            /\ isGeneratingPageContent' = FALSE
            /\ UNCHANGED <<pageId, page, pathname, sections, pendingSectionIds,
                           currentSectionId, unsubscribeFn, subscribed, isLoading>>
      [] data.type = "PageSectionsCreated" ->
            /\ pendingSectionIds' = {data.sections[i] : i \in 1..Len(data.sections)}
            /\ sections' = <<nextSections(data.sections, closurePageId)>>
            /\ UNCHANGED <<pageId, page, isGeneratingPageContent, pathname,
                           currentSectionId, unsubscribeFn, subscribed, isLoading>>
      [] data.type = "PageSectionContentDelta" ->
            \* no break: control falls through into 'PageSectionContentCompleted'
            /\ currentSectionId' = data.id
            /\ sections' = appendSectionDelta(sections, data.id, data.delta)
            /\ pendingSectionIds' = removePending(pendingSectionIds, data.id)
            /\ UNCHANGED <<pageId, page, isGeneratingPageContent, pathname, unsubscribeFn,
                           subscribed, isLoading>>
      [] data.type = "PageSectionContentCompleted" ->
            /\ pendingSectionIds' = removePending(pendingSectionIds, data.id)
            /\ UNCHANGED <<pageId, page, isGeneratingPageContent, pathname, sections,
                           currentSectionId, unsubscribeFn, subscribed, isLoading>>
      [] data.type = "PageCompleted" ->
            /\ stopUpdates
            /\ UNCHANGED <<pageId, page, pathname, sections>>
      [] OTHER ->
            UNCHANGED <<pageId, page, isGeneratingPageContent, pathname, sections,
                        pendingSectionIds, currentSectionId, unsubscribeFn, subscribed,
                        isLoading>>

\* The subscriber of convertThreadToPage, called with a result that carries a value
StreamData(h, data) ==
    /\ h \in subscribed
    /\ nEvents < MaxEvents
    /\ processPageStream(data)
    /\ LogEvent(data)
    /\ Record("StreamData", data)
    /\ UNCHANGED <<activePathname, isPathnameInitialized, effectPass>>
    /\ UNCHANGED <<pendingThreadId, initializing, stopPc, subsOpened, closurePageId,
                   subscriptionThreadId, error, isReady,
                   stopButtonVisible>>
    /\ UNCHANGED <<histVars, histGhost>>

\* ... called with a result without data: `if (!value) return`
StreamNoData(h) ==
    /\ h \in subscribed
    /\ nEvents < MaxEvents
    /\ LogEvent(NoData)
    /\ Record("StreamNoData", NoData)
    /\ UNCHANGED <<routeVars, ctlVars, reducerVars, histVars, histGhost>>

\* ... called with a result that carries an error
StreamError(h) ==
    /\ h \in subscribed
    /\ nEvents < MaxEvents
    /\ isLoading' = FALSE
    /\ error' = "stream error"
    /\ subscribed' = subscribed \ {h}
    /\ LogEvent(NoData)
    /\ Record("StreamError", NoData)
    /\ UNCHANGED <<pendingThreadId, initializing, stopPc, unsubscribeFn, subsOpened,
                   closurePageId, subscriptionThreadId,
                   isReady, stopButtonVisible>>
    /\ UNCHANGED <<routeVars, reducerVars, histVars, histGhost>>

\* a variant of stop that discards what the stream had accumulated
stopRollback ==
    /\ effectPass >= 1
    /\ stopButtonVisible
    /\ stopUpdates
    /\ page' = <<>>
    /\ sections' = <<>>
    /\ Record("stop", NoData)
    /\ UNCHANGED <<pendingThreadId, initializing, stopPc, subsOpened, closurePageId,
                   subscriptionThreadId, error, isReady,
                   stopButtonVisible>>
    /\ UNCHANGED pageId
    /\ UNCHANGED <<routeVars, histVars, streamGhost, histGhost>>

\* stop, from the "Stop generating" button
stop ==
    /\ effectPass >= 1
    /\ stopButtonVisible
    /\ stopUpdates
    /\ Record("stop", NoData)
    /\ UNCHANGED <<pendingThreadId, initializing, stopPc, subsOpened, closurePageId,
                   subscriptionThreadId, error, isReady,
                   stopButtonVisible>>
    /\ UNCHANGED <<pageId, page, sections>>
    /\ UNCHANGED <<routeVars, histVars, streamGhost, histGhost>>

\* The stop-button effect after isLoading became true: its 300 ms timer fires
ShowStopButton ==
    /\ effectPass >= 1
    /\ isLoading
    /\ ~stopButtonVisible
    /\ stopButtonVisible' = TRUE
    /\ Record("ShowStopButton", NoData)
    /\ UNCHANGED <<pendingThreadId, initializing, stopPc, unsubscribeFn, subscribed, subsOpened,
                   closurePageId, subscriptionThreadId, isLoading, error, isReady>>
    /\ UNCHANGED <<routeVars, reducerVars, histVars, streamGhost, histGhost>>

\* The stop-button effect after isLoading became false
HideStopButton ==
    /\ effectPass >= 1
    /\ ~isLoading
    /\ stopButtonVisible
    /\ stopButtonVisible' = FALSE
    /\ Record("HideStopButton", NoData)
    /\ UNCHANGED <<pendingThreadId, initializing, stopPc, unsubscribeFn, subscribed, subsOpened,
                   closurePageId, subscriptionThreadId, isLoading, error, isReady>>
    /\ UNCHANGED <<routeVars, reducerVars, histVars, streamGhost, histGhost>>

----------------------------------------------------------------------------
\* The view while a thread is converted: mount, subscription, stream, stop

NextStream ==
    \/ MountEffects
    \/ InitEffects
    \/ PathnameEffect
    \/ \E h \in subscribed, data \in StreamEvents : StreamData(h, data)
    \/ \E h \in subscribed : StreamNoData(h)
    \/ \E h \in subscribed : StreamError(h)
    \/ stop
    \/ ShowStopButton
    \/ HideStopButton

SpecStream == Init /\ [][NextStream]_vars

----------------------------------------------------------------------------
\* Results that reach the transport after the subscription was unsubscribed

\* a variant in which the subscriber still handles a result after unsubscribe
LateStreamDataDelivered(h, data) ==
    /\ h \in 1..subsOpened
    /\ h \notin subscribed
    /\ nEvents < MaxEvents
    /\ processPageStream(data)
    /\ LogEvent(data)
    /\ Record("LateStreamData", data)
    /\ UNCHANGED <<activePathname, isPathnameInitialized, effectPass>>
    /\ UNCHANGED <<pendingThreadId, initializing, stopPc, subsOpened, closurePageId,
                   subscriptionThreadId, error, isReady, stopButtonVisible>>
    /\ UNCHANGED <<histVars, histGhost>>

\* A result for a subscription whose unsubscribe (by stop, PageCompleted or
\* the error branch) has been called: the subscriber is not called any more
LateStreamData(h, data) ==
    /\ h \in 1..subsOpened
    /\ h \notin subscribed
    /\ nEvents < MaxEvents
    /\ nEvents' = nEvents + 1
    /\ Record("LateStreamData", data)
    /\ UNCHANGED <<pageDeltaLog, nPageCreated, deltaBeforePage, secDeltaLog,
                   nSectionsCreated, secDeltaBeforeCreated>>
    /\ UNCHANGED <<routeVars, ctlVars, reducerVars, histVars, histGhost>>

NextLate ==
    \/ NextStream
    \/ \E h \in 1..subsOpened, data \in StreamEvents : LateStreamData(h, data)

SpecLate == Init /\ [][NextLate]_vars

----------------------------------------------------------------------------
\* stop, statement by statement.  The handler runs to completion: between
\* its first statement and its last no other callback of the view runs.

\* unsubscribeFn.current?.() has returned
stopUnsubscribe ==
    /\ stopPc = "idle"
    /\ effectPass >= 1
    /\ stopButtonVisible
    /\ stopPc' = "unsubscribed"
    /\ subscribed' = IF unsubscribeFn # NoHandle THEN subscribed \ {unsubscribeFn}
                     ELSE subscribed
    /\ Record("stopUnsubscribe", NoData)
    /\ UNCHANGED <<pendingThreadId, initializing, unsubscribeFn, subsOpened, closurePageId,
                   subscriptionThreadId, isLoading, error, isReady, stopButtonVisible>>
    /\ UNCHANGED <<routeVars, reducerVars, histVars, streamGhost, histGhost>>

\* unsubscribeFn.current = undefined, setIsLoading(false) and the other resets
stopResets ==
    /\ stopPc = "unsubscribed"
    /\ stopPc' = "idle"
    /\ unsubscribeFn' = NoHandle
    /\ isLoading' = FALSE
    /\ isGeneratingPageContent' = FALSE
    /\ pendingSectionIds' = {}
    /\ currentSectionId' = NoId
    /\ lastOp' = [op |-> "stop", data |-> NoData, resp |-> NoResponse]
    /\ UNCHANGED <<prevOp, pre>>
    /\ UNCHANGED <<pendingThreadId, initializing, subscribed, subsOpened, closurePageId,
                   subscriptionThreadId, error, isReady, stopButtonVisible>>
    /\ UNCHANGED <<pageId, page, sections>>
    /\ UNCHANGED <<routeVars, histVars, streamGhost, histGhost>>

Idle == stopPc = "idle"

NextStopOrder ==
    \/ Idle /\ MountEffects
    \/ Idle /\ InitEffects
    \/ Idle /\ PathnameEffect
    \/ Idle /\ \E h \in subscribed, data \in StreamEvents : StreamData(h, data)
    \/ Idle /\ \E h \in subscribed : StreamError(h)
    \/ Idle /\ ShowStopButton
    \/ Idle /\ HideStopButton
    \/ stopUnsubscribe
    \/ stopResets

SpecStopOrder == Init /\ [][NextStopOrder]_vars

----------------------------------------------------------------------------
\* The historical queries

\* a variant that ends the pagination on the hasNextPage flag alone
SectionsResultNeedsCursor(resp) ==
    /\ fetchingPageSections
    /\ pageIdFromURL(activePathname) # NoId
    /\ ~isReady
    /\ nFetches < MaxFetches
    /\ nFetches' = nFetches + 1
    /\ pageSectionData' = <<resp>>
    /\ IF resp.stale
       THEN UNCHANGED <<sections, afterCursor, isReady, fetchingPageSections, mergedLog>>
       ELSE /\ sections' = IF Len(resp.edges) > 0
                           THEN mergeSections(sections, resp.edges) ELSE sections
            /\ mergedLog' = mergedLog \o resp.edges
            /\ IF resp.hasNextPage /\ resp.endCursor # NoId
               THEN /\ afterCursor' = resp.endCursor
                    /\ fetchingPageSections' = (resp.endCursor # afterCursor)
                    /\ UNCHANGED isReady
               ELSE /\ isReady' = ~resp.hasNextPage
                    /\ fetchingPageSections' = FALSE
                    /\ UNCHANGED afterCursor
    /\ lastOp' = [op |-> "SectionsResult", data |-> NoData, resp |-> resp]
    /\ prevOp' = lastOp.op
    /\ pre' = ViewState
    /\ UNCHANGED <<pendingThreadId, initializing, stopPc, unsubscribeFn, subscribed, subsOpened,
                   closurePageId, subscriptionThreadId, isLoading, error, stopButtonVisible>>
    /\ UNCHANGED <<pageId, page, isGeneratingPageContent, pendingSectionIds,
                   currentSectionId>>
    /\ UNCHANGED <<fetchingPages, pageSectionsError, pagesData, toasts, deletesInFlight, nDeletes,
                   confirmedDeleted>>
    /\ UNCHANGED <<routeVars, streamGhost>>

\* A listPageSections result arrives and the pageSectionData effect runs
SectionsResult(resp) ==
    /\ fetchingPageSections
    /\ pageIdFromURL(activePathname) # NoId
    /\ ~isReady
    /\ nFetches < MaxFetches
    /\ nFetches' = nFetches + 1
    /\ pageSectionData' = <<resp>>
    /\ IF resp.stale
       THEN UNCHANGED <<sections, afterCursor, isReady, fetchingPageSections, mergedLog>>
       ELSE /\ sections' = IF Len(resp.edges) > 0
                           THEN mergeSections(sections, resp.edges) ELSE sections
            /\ mergedLog' = mergedLog \o resp.edges
            /\ IF resp.hasNextPage /\ resp.endCursor # NoId
               THEN /\ afterCursor' = resp.endCursor
                    /\ fetchingPageSections' = (resp.endCursor # afterCursor)
                    /\ UNCHANGED isReady
               ELSE /\ isReady' = TRUE
                    /\ fetchingPageSections' = FALSE
                    /\ UNCHANGED afterCursor
    /\ lastOp' = [op |-> "SectionsResult", data |-> NoData, resp |-> resp]
    /\ prevOp' = lastOp.op
    /\ pre' = ViewState
    /\ UNCHANGED <<pendingThreadId, initializing, stopPc, unsubscribeFn, subscribed, subsOpened,
                   closurePageId, subscriptionThreadId, isLoading, error, stopButtonVisible>>
    /\ UNCHANGED <<pageId, page, isGeneratingPageContent, pendingSectionIds,
                   currentSectionId>>
    /\ UNCHANGED <<fetchingPages, pageSectionsError, pagesData, toasts, deletesInFlight, nDeletes,
                   confirmedDeleted>>
    /\ UNCHANGED <<routeVars, streamGhost>>

\* a variant of the error effect that leaves the request to be retried
SectionsErrorRetries(err) ==
    /\ fetchingPageSections
    /\ pageIdFromURL(activePathname) # NoId
    /\ ~isReady
    /\ nFetches < MaxFetches
    /\ nFetches' = nFetches + 1
    /\ pageSectionsError' = err
    /\ UNCHANGED <<isReady, fetchingPageSections>>
    /\ Record("SectionsError", NoData)
    /\ UNCHANGED <<pendingThreadId, initializing, stopPc, unsubscribeFn, subscribed, subsOpened,
                   closurePageId, subscriptionThreadId, isLoading, error, stopButtonVisible>>
    /\ UNCHANGED <<afterCursor, fetchingPages, pageSectionData, pagesData, toasts,
                   deletesInFlight, nDeletes, confirmedDeleted>>
    /\ UNCHANGED <<routeVars, reducerVars, streamGhost, mergedLog>>

\* A listPageSections request fails and the pageSectionsError effect runs
SectionsError(err) ==
    /\ fetchingPageSections
    /\ pageIdFromURL(activePathname) # NoId
    /\ ~isReady
    /\ nFetches < MaxFetches
    /\ nFetches' = nFetches + 1
    /\ pageSectionsError' = err
    /\ isReady' = TRUE
    /\ fetchingPageSections' = FALSE
    /\ Record("SectionsError", NoData)
    /\ UNCHANGED <<pendingThreadId, initializing, stopPc, unsubscribeFn, subscribed, subsOpened,
                   closurePageId, subscriptionThreadId, isLoading, error, stopButtonVisible>>
    /\ UNCHANGED <<afterCursor, fetchingPages, pageSectionData, pagesData, toasts,
                   deletesInFlight, nDeletes, confirmedDeleted>>
    /\ UNCHANGED <<routeVars, reducerVars, streamGhost, mergedLog>>

\* The listPages result arrives (variables ids: [pageIdFromURL], so a record
\* it carries has that id) and the pagesData effect runs
PagesResult(resp) ==
    /\ fetchingPages
    /\ pageIdFromURL(activePathname) # NoId
    /\ resp # <<>> => resp[1].id = pageIdFromURL(activePathname)
    /\ fetchingPages' = FALSE
    /\ pagesData' = resp
    /\ page' = IF resp # <<>> THEN resp ELSE page
    /\ Record("PagesResult", NoData)
    /\ UNCHANGED <<pageId, sections, isGeneratingPageContent, pendingSectionIds,
                   currentSectionId>>
    /\ UNCHANGED <<afterCursor, fetchingPageSections, pageSectionData, pageSectionsError,
                   toasts, deletesInFlight, nDeletes, confirmedDeleted>>
    /\ UNCHANGED <<routeVars, ctlVars, streamGhost, histGhost>>

----------------------------------------------------------------------------
\* The view while an existing page is loaded: mount and the historical queries

NextHist ==
    \/ MountEffects
    \/ InitEffects
    \/ \E resp \in SectionResponses : SectionsResult(resp)
    \/ \E err \in SectionErrors : SectionsError(err)
    \/ \E resp \in PageResponses : PagesResult(resp)

SpecHist == Init /\ [][NextHist]_vars

----------------------------------------------------------------------------
\* The historical load against a server whose list ends: every request is
\* answered, a next-page cursor differs from the cursor that was asked for,
\* and the list has at most MaxFetches pages

PagedResponse(resp) ==
    /\ (resp.hasNextPage /\ resp.endCursor # NoId) => resp.endCursor # afterCursor
    /\ nFetches + 1 = MaxFetches
          => (~resp.stale /\ ~(resp.hasNextPage /\ resp.endCursor # NoId))

ServerAnswers ==
    \/ \E resp \in SectionResponses : PagedResponse(resp) /\ SectionsResult(resp)
    \/ \E err \in SectionErrors : SectionsError(err)

NextHistPaged ==
    \/ MountEffects
    \/ InitEffects
    \/ ServerAnswers
    \/ \E resp \in PageResponses : PagesResult(resp)

\* React runs the effects of a commit; urql delivers the answer to a request
SpecHistFair ==
    /\ Init
    /\ [][NextHistPaged]_vars
    /\ WF_vars(MountEffects)
    /\ WF_vars(InitEffects)
    /\ WF_vars(ServerAnswers)

----------------------------------------------------------------------------
\* The view while a thread is converted, with the listPages query that starts
\* once the URL of the created page is adopted

\* the stream events that concern the page itself
PageEvents ==
    {data \in StreamEvents :
        data.type \in {"PageCreated", "PageContentDelta", "PageContentCompleted",
                       "PageCompleted"}}

NextView ==
    \/ MountEffects
    \/ InitEffects
    \/ PathnameEffect
    \/ \E h \in subscribed, data \in PageEvents : StreamData(h, data)
    \/ \E resp \in PageResponses : PagesResult(resp)

SpecView == Init /\ [][NextView]_vars

----------------------------------------------------------------------------
\* Deleting a section

\* sections?.filter(x => x.id !== sectionId)
withoutSection(list, sectionId) ==
    IF list = <<>> THEN <<>>
    ELSE <<SelectSeq(list[1], LAMBDA x : x.id # sectionId)>>

DeleteData(type, sectionId) == [NoData EXCEPT !.type = type, !.id = sectionId]

\* onDeleteSection(sectionId), from the delete control of a rendered
\* section: sends the mutation; the .then callback keeps the `sections` of
\* the render the handler belongs to
onDeleteSection(sectionId) ==
    /\ effectPass = 2
    /\ isReady
    /\ pageSectionsError = NoError
    /\ sectionId \in Ids(OrEmpty(sections))
    /\ nDeletes < MaxDeletes
    /\ nDeletes' = nDeletes + 1
    /\ UNCHANGED confirmedDeleted
    /\ deletesInFlight' =
           IF pageIdFromURL(activePathname) = NoId THEN deletesInFlight
           ELSE deletesInFlight \cup {[sectionId |-> sectionId, sections |-> sections]}
    /\ Record("onDeleteSection", DeleteData("deletePageSection", sectionId))
    /\ UNCHANGED <<afterCursor, fetchingPages, fetchingPageSections, pageSectionData,
                   pageSectionsError, pagesData, toasts>>
    /\ UNCHANGED <<routeVars, ctlVars, reducerVars, streamGhost, histGhost>>

\* The deletePageSection mutation settles: .then(data => ...) runs with
\* data?.data?.deletePageSection truthy (ok) or not
DeleteSectionResult(req, ok) ==
    /\ req \in deletesInFlight
    /\ deletesInFlight' = deletesInFlight \ {req}
    /\ confirmedDeleted' = IF ok THEN confirmedDeleted \cup {req.sectionId}
                           ELSE confirmedDeleted
    /\ IF ok
       THEN /\ sections' = withoutSection(req.sections, req.sectionId)
            /\ UNCHANGED toasts
       ELSE /\ toasts' = toasts + 1
            /\ UNCHANGED sections
    /\ Record("DeleteSectionResult",
              DeleteData(IF ok THEN "deleted" ELSE "failed", req.sectionId))
    /\ UNCHANGED <<pageId, page, isGeneratingPageContent, pendingSectionIds,
                   currentSectionId>>
    /\ UNCHANGED <<afterCursor, fetchingPages, fetchingPageSections, pageSectionData,
                   pageSectionsError, pagesData, nDeletes>>
    /\ UNCHANGED <<routeVars, ctlVars, streamGhost, histGhost>>

\* The view of an existing page: the historical load, then deletions
NextDelete ==
    \/ MountEffects
    \/ InitEffects
    \/ \E resp \in SectionResponses : SectionsResult(resp)
    \/ \E err \in SectionErrors : SectionsError(err)
    \/ \E resp \in PageResponses : PagesResult(resp)
    \/ \E sectionId \in Ids(OrEmpty(sections)) : onDeleteSection(sectionId)
    \/ \E req \in deletesInFlight, ok \in BOOLEAN : DeleteSectionResult(req, ok)

SpecDelete == Init /\ [][NextDelete]_vars

----------------------------------------------------------------------------
\* What Page() returns

\* const formatedThreadError = undefined
formatedThreadError == NoError

\* ErrorView({ error })
ErrorView(err) == IF err = ERROR_CODE_NOT_FOUND THEN "NotFoundPage" ELSE "ErrorView"

\* the return statements of Page(), in order; the `error` state that the
\* subscriber sets is read by none of them
View ==
    IF isReady /\ (formatedThreadError # NoError \/ pageSectionsError # NoError)
    THEN ErrorView(IF formatedThreadError # NoError THEN formatedThreadError
                   ELSE pageSectionsError)
    ELSE IF ~isReady /\ (fetchingPageSections
                         \/ (pageSectionData # <<>> /\ pageSectionData[1].hasNextPage)
                         \/ (pageSectionData # <<>> /\ pageSectionData[1].stale))
         THEN "Skeleton"
         ELSE IF ~isReady THEN "LoadingFallback" ELSE "Page"

----------------------------------------------------------------------------
\* Properties of the stream reducer (checked under SpecStream)

IsEvent(type) == lastOp.op = "StreamData" /\ lastOp.data.type = type

C2_SectionContentIsPerIdConcatenation ==
    /\ (nSectionsCreated = 1 /\ ~secDeltaBeforeCreated)
          => /\ sections # <<>>
             /\ \A i \in 1..Len(OrEmpty(sections)) :
                   sections[1][i].content = secDeltaLog[sections[1][i].id]
    /\ IsEvent("PageSectionContentDelta")
          => /\ Len(OrEmpty(sections)) = Len(OrEmpty(pre.sections))
             /\ (sections = <<>>) = (pre.sections = <<>>)
             /\ \A i \in 1..Len(OrEmpty(pre.sections)) :
                   /\ sections[1][i].id = pre.sections[1][i].id
                   /\ pre.sections[1][i].id # lastOp.data.id
                         => sections[1][i] = pre.sections[1][i]

C2_Witness ==
    /\ nSectionsCreated = 1
    /\ ~secDeltaBeforeCreated
    /\ IsEvent("PageSectionContentDelta")
    /\ lastOp.data.id = "s1"
    /\ pre.currentSectionId = "s2"
    /\ Len(secDeltaLog["s1"]) = 2
    /\ secDeltaLog["s1"][1] # secDeltaLog["s1"][2]
    /\ Len(secDeltaLog["s2"]) = 1

\* C3: a section id leaves the pending set only when its
\* PageSectionContentCompleted arrives, when the stream is settled by stop or
\* PageCompleted, or when PageSectionsCreated installs a new pending set; in
\* particular it stays through PageSectionContentDelta events for that id.
C3_PendingUntilCompleted ==
    \A id \in pre.pendingSectionIds :
        id \notin pendingSectionIds
            => \/ (IsEvent("PageSectionContentCompleted") /\ lastOp.data.id = id)
               \/ IsEvent("PageCompleted")
               \/ IsEvent("PageSectionsCreated")
               \/ lastOp.op = "stop"

\* C4: a PageSectionContentDelta whose id is not in the section list leaves
\* the section list, the page, the pending set and the current section id
\* unchanged.
C4_StrayDeltaIsNoOp ==
    (IsEvent("PageSectionContentDelta")
     /\ lastOp.data.id \notin Ids(OrEmpty(pre.sections)))
        => /\ sections = pre.sections
           /\ page = pre.page
           /\ pendingSectionIds = pre.pendingSectionIds
           /\ currentSectionId = pre.currentSectionId

\* what C4 leaves of the stray delta: it touches neither the section list,
\* nor the page, nor (the id not being pending) the pending set
StrayDeltaKeepsContent ==
    (IsEvent("PageSectionContentDelta")
     /\ lastOp.data.id \notin Ids(OrEmpty(pre.sections)))
        => /\ sections = pre.sections
           /\ page = pre.page
           /\ pendingSectionIds = pre.pendingSectionIds

\* C5: PageSectionContentCompleted(id) for an id that is not in the pending
\* set changes nothing, and delivering it twice is the same as delivering it
\* once.
C5_CompletedIsIdempotent ==
    /\ (IsEvent("PageSectionContentCompleted")
        /\ lastOp.data.id \notin pre.pendingSectionIds) => ViewState = pre
    /\ \A id \in EventSectionIds :
          removePending(removePending(pendingSectionIds, id), id)
              = removePending(pendingSectionIds, id)

C5_Witness ==
    /\ IsEvent("PageSectionContentCompleted")
    /\ lastOp.data.id = "s2"
    /\ pre.pendingSectionIds = {"s1"}
    /\ "s2" \in Ids(OrEmpty(sections))
    /\ secDeltaLog["s2"] = <<>>

----------------------------------------------------------------------------
\* Properties of the merge of historical sections (checked under SpecHist)

NoDuplicateIds(list) ==
    \A i, j \in 1..Len(list) : list[i].id = list[j].id => i = j

\* the elements of a list whose id does not occur earlier in it, in order
RECURSIVE FirstOccurrencesFrom(_, _)
FirstOccurrencesFrom(list, i) ==
    IF i > Len(list) THEN <<>>
    ELSE (IF \A j \in 1..(i - 1) : list[j].id # list[i].id THEN <<list[i]>> ELSE <<>>)
         \o FirstOccurrencesFrom(list, i + 1)

OrderedUnion(list) == FirstOccurrencesFrom(list, 1)

IsMerge == lastOp.op = "SectionsResult" /\ ~lastOp.resp.stale

\* C6: after each merged page the section list has no two entries with the
\* same id and is the ordered union of the pages merged so far, each id at
\* the position (and with the record) of its first occurrence.
C6_MergeIsOrderedUnion ==
    /\ NoDuplicateIds(OrEmpty(sections))
    /\ OrEmpty(sections) = OrderedUnion(mergedLog)

C6_Witness ==
    /\ IsMerge
    /\ mergedLog = <<HistSection("h1", "a"), HistSection("h2", "a"),
                     HistSection("h2", "b"), HistSection("h3", "a")>>
    /\ sections = <<(<<HistSection("h1", "a"), HistSection("h2", "a"),
                       HistSection("h3", "a")>>)>>

\* C7: merging a page whose ids are all in the section list already (an
\* already merged page supplied again) leaves the section list unchanged.
C7_RemergeIsNoOp ==
    (IsMerge /\ Ids(lastOp.resp.edges) \subseteq Ids(OrEmpty(pre.sections)))
        => sections = pre.sections

C7_Witness ==
    /\ IsMerge
    /\ Len(lastOp.resp.edges) = 2
    /\ Ids(lastOp.resp.edges) \subseteq Ids(OrEmpty(pre.sections))
    /\ Len(OrEmpty(pre.sections)) = 3
    /\ nFetches = 3

----------------------------------------------------------------------------
\* Properties of stop (checked under SpecStream)

\* what the view shows: everything Page() renders or hands to its context
Observable(v) ==
    [page |-> v.page, sections |-> v.sections, pendingSectionIds |-> v.pendingSectionIds,
     currentSectionId |-> v.currentSectionId,
     isGeneratingPageContent |-> v.isGeneratingPageContent, isLoading |-> v.isLoading,
     isReady |-> v.isReady]

\* C8: stop invoked right after stop leaves the state that the first stop
\* produced, and stop invoked when no subscription is active changes nothing
\* observable.
C8_StopIsIdempotent ==
    /\ (lastOp.op = "stop" /\ prevOp = "stop") => ViewState = pre
    /\ (lastOp.op = "stop" /\ pre.subscribed = {})
          => Observable(ViewState) = Observable(pre)

\* what holds of C8: a stop right after a stop changes nothing
StopTwiceIsStopOnce ==
    (lastOp.op = "stop" /\ prevOp = "stop") => ViewState = pre

\* what holds of C8: stop invoked once the handle is cleared (before the
\* subscription is opened, after stop or PageCompleted) changes nothing
\* observable; the error branch of the subscriber closes the subscription
\* and keeps the handle
StopWithHandleClearedIsNoOp ==
    (lastOp.op = "stop" /\ pre.unsubscribeFn = NoHandle)
        => Observable(ViewState) = Observable(pre)

\* C9: stop leaves the page and the section list exactly as they were
\* immediately before it.
C9_StopKeepsPageAndSections ==
    lastOp.op = "stop" => (page = pre.page /\ sections = pre.sections)

C9_Witness ==
    /\ lastOp.op = "stop"
    /\ pre.subscribed # {}
    /\ page # <<>>
    /\ page[1].content # <<>>
    /\ sections # <<>>
    /\ \E i \in 1..Len(sections[1]) : sections[1][i].content # <<>>

\* C10: with the subscription active, PageCompleted or stop settles the
\* view: the subscription is unsubscribed and its handle cleared, the
\* loading flag is false, the pending set is empty and the generating flag
\* is false.
C10_CompletedOrStopSettles ==
    ((lastOp.op = "stop" \/ IsEvent("PageCompleted")) /\ pre.subscribed # {})
        => /\ subscribed = {}
           /\ unsubscribeFn = NoHandle
           /\ ~isLoading
           /\ pendingSectionIds = {}
           /\ ~isGeneratingPageContent

C10_Witness ==
    /\ IsEvent("PageCompleted")
    /\ pre.subscribed # {}
    /\ pre.isLoading
    /\ pre.pendingSectionIds # {}
    /\ pre.isGeneratingPageContent

----------------------------------------------------------------------------
\* Properties of the controller (checked under SpecStream)

\* C11: at most one stream subscription is active at any time, and the
\* subscription is opened at most once in the life of the view, whatever
\* pathname changes and effect runs happen.
C11_AtMostOneSubscription ==
    /\ Cardinality(subscribed) <= 1
    /\ subsOpened <= 1

C11_Witness ==
    /\ lastOp.op = "PathnameEffect"
    /\ nPageCreated = 2
    /\ pageIdFromURL(activePathname) = "p2"
    /\ initializing
    /\ subsOpened = 1
    /\ subscribed = {1}

C13_TransportErrorShowsErrorView ==
    /\ lastOp.op = "StreamError"
          => /\ ~isLoading
             /\ subscribed = {}
             /\ View = "ErrorView"
    /\ error # NoError => (subscribed = {} /\ subsOpened = 1)

\* what holds of C13: the error is stored, loading ends, the subscription is
\* closed and none is opened afterwards
TransportErrorClosesStream ==
    /\ lastOp.op = "StreamError"
          => /\ ~isLoading
             /\ subscribed = {}
             /\ error # NoError
    /\ error # NoError => (subscribed = {} /\ subsOpened = 1)

----------------------------------------------------------------------------
\* Properties of the historical load (checked under SpecHist)

\* C14: when the listPages lookup for the page id of the URL returns no
\* record, the view renders the NotFound view and no listPageSections request
\* is in flight or issued afterwards.
C14_MissingPageShowsNotFound ==
    (lastOp.op = "PagesResult" /\ pagesData = <<>>)
        => /\ View = "NotFoundPage"
           /\ ~fetchingPageSections

\* what holds of C14: the NotFound view is rendered exactly when a
\* listPageSections request has failed with ERROR_CODE_NOT_FOUND, whatever
\* listPages returned
NotFoundComesFromSectionsError ==
    (View = "NotFoundPage") <=> (isReady /\ pageSectionsError = ERROR_CODE_NOT_FOUND)

\* C15: when a listPageSections request fails, the section list stays
\* exactly what was merged before, the view is marked ready, and no
\* listPageSections request is in flight or issued afterwards.
C15_FetchErrorSettles ==
    /\ lastOp.op = "SectionsError"
          => /\ sections = pre.sections
             /\ OrEmpty(sections) = OrderedUnion(mergedLog)
             /\ isReady
    /\ pageSectionsError # NoError => (isReady /\ ~fetchingPageSections)

C15_Witness ==
    /\ lastOp.op = "SectionsError"
    /\ ~pre.isReady
    /\ nFetches = 2
    /\ Len(OrEmpty(sections)) = 2
    /\ afterCursor # NoId

\* Loading-Historical: no token in the store, a page id in the URL
LoadingHistorical == pendingThreadId = NoId /\ pageIdFromURL(pathname) # NoId

ContinuesPaging(resp) == resp.hasNextPage /\ resp.endCursor # NoId

----------------------------------------------------------------------------
\* Properties of deleting a section (checked under SpecDelete)

IsDeleteResult(type) == lastOp.op = "DeleteSectionResult" /\ lastOp.data.type = type

\* C17: a delete-section request changes the section list only when the
\* mutation has returned a truthy result, and then by removing exactly that
\* section from the list; when the mutation returns false the list is
\* unchanged and one failure notice is produced.
C17_DeleteOnlyAfterConfirmation ==
    /\ lastOp.op = "onDeleteSection" => (sections = pre.sections /\ toasts = pre.toasts)
    /\ IsDeleteResult("deleted")
          => (sections = withoutSection(pre.sections, lastOp.data.id) /\ toasts = pre.toasts)
    /\ IsDeleteResult("failed") => (sections = pre.sections /\ toasts = pre.toasts + 1)

\* what holds of C17: sending the request changes nothing, and a false
\* result leaves the list alone and produces one notice
DeleteFailureKeepsList ==
    /\ lastOp.op = "onDeleteSection" => (sections = pre.sections /\ toasts = pre.toasts)
    /\ IsDeleteResult("failed") => (sections = pre.sections /\ toasts = pre.toasts + 1)

----------------------------------------------------------------------------
\* Properties of the page under interleaved callbacks (checked under SpecView)

\* C18: once the page's id has been set (the pageId state, and the id of
\* the page record), no stream event, repeated PageCreated included, and no
\* listPages result changes it.
C18_PageIdNeverChanges ==
    /\ pre.pageId # NoId => pageId = pre.pageId
    /\ pre.page # <<>> => (page # <<>> /\ page[1].id = pre.page[1].id)

\* what holds of C18: the id is stable as long as the stream has delivered
\* at most one PageCreated
PageIdStableUnderOneCreation ==
    nPageCreated <= 1
        => /\ pre.pageId # NoId => pageId = pre.pageId
           /\ pre.page # <<>> => (page # <<>> /\ page[1].id = pre.page[1].id)

IsPrefix(a, b) == Len(a) <= Len(b) /\ SubSeq(b, 1, Len(a)) = a

\* C19: while the subscription is active and the page is set, every step
\* other than a PageCreated (stream event, URL adoption, listPages result)
\* leaves a page whose content has the previous content as a prefix.
C19_ContentOnlyGrows ==
    (pre.subscribed # {} /\ pre.page # <<>> /\ ~IsEvent("PageCreated"))
        => /\ page # <<>>
           /\ IsPrefix(pre.page[1].content, page[1].content)

\* what holds of C19: the steps of the stream itself only append
StreamOnlyAppends ==
    (lastOp.op \in {"StreamData", "PathnameEffect"} /\ pre.page # <<>>
     /\ ~IsEvent("PageCreated"))
        => /\ page # <<>>
           /\ IsPrefix(pre.page[1].content, page[1].content)

----------------------------------------------------------------------------
\* Properties of the order of stop's statements (checked under SpecStopOrder)

\* C20: at the moment the unsubscribe call of stop returns, the loading flag
\* is already false.
C20_LoadingFalseWhenUnsubscribeReturns ==
    stopPc = "unsubscribed" => ~isLoading

\* what holds of C20: when the unsubscribe call returns the subscription is
\* closed and the loading flag is what it was before stop; it is false when
\* stop has finished
StopUnsubscribesFirst ==
    /\ stopPc = "unsubscribed"
          => /\ isLoading = pre.isLoading
             /\ (pre.unsubscribeFn # NoHandle => pre.unsubscribeFn \notin subscribed)
    /\ (lastOp.op = "stop" /\ Idle) => ~isLoading

----------------------------------------------------------------------------
\* Properties of the converting view (checked under SpecStream)

\* C21: in Converting mode, from the moment the subscription is opened until
\* a PageCreated has been applied and the id of the created page is in the
\* URL, the view is not ready.
C21_NotReadyUntilPageCreated ==
    (subsOpened >= 1 /\ (nPageCreated = 0 \/ pageIdFromURL(pathname) = NoId))
        => ~isReady

\* what holds instead of C21: isReady starts as !!pendingThreadId and nothing
\* resets it, so the converting view is ready from construction onwards
ConvertingViewIsReady ==
    subsOpened >= 1 => (isReady /\ pre.isReady)

\* C22: every section created by a PageSectionsCreated that follows a
\* PageCreated carries the id of the page as its pageId.
C22_StreamedSectionsBelongToPage ==
    (IsEvent("PageSectionsCreated") /\ pre.page # <<>>)
        => \A i \in 1..Len(OrEmpty(sections)) : sections[1][i].pageId = page[1].id

\* what holds instead of C22: the sections carry the pageId that
\* processPageStream captured when the subscription was opened, which is
\* undefined
StreamedSectionsCarryCapturedPageId ==
    /\ subsOpened >= 1 => closurePageId = NoId
    /\ IsEvent("PageSectionsCreated")
          => \A i \in 1..Len(OrEmpty(sections)) : sections[1][i].pageId = NoId

\* C25: in every state in which the loading flag is false, the generating
\* flag is false and the pending set is empty, whichever way the stream
\* ended: PageCompleted, stop or a transport error.
C25_NotLoadingMeansNothingPending ==
    ~isLoading => (~isGeneratingPageContent /\ pendingSectionIds = {})

\* what holds of C25: the same as long as no transport error has occurred
NotLoadingMeansNothingPendingWithoutError ==
    (~isLoading /\ error = NoError) => (~isGeneratingPageContent /\ pendingSectionIds = {})

----------------------------------------------------------------------------
\* Properties of a settled stream (checked under SpecLate)

IsStreamResult ==
    lastOp.op \in {"StreamData", "StreamNoData", "StreamError", "LateStreamData"}

----------------------------------------------------------------------------
\* Properties of concurrent deletions (checked under SpecDelete)

\* C24: when the delete-section requests that were in flight together have
\* all been handled, no section whose deletion the server confirmed is in
\* the section list, in whichever order the confirmations arrived.
C24_NoConfirmedDeletionLost ==
    deletesInFlight = {} => confirmedDeleted \cap Ids(OrEmpty(sections)) = {}

\* what holds of C24: the section whose confirmation is handled is not in
\* the list right afterwards, and with one request in flight at a time no
\* confirmed deletion comes back
LastConfirmedDeletionApplies ==
    /\ IsDeleteResult("deleted") => lastOp.data.id \notin Ids(OrEmpty(sections))
    /\ (IsDeleteResult("deleted") /\ prevOp = "onDeleteSection" /\ deletesInFlight = {})
          => confirmedDeleted \cap Ids(OrEmpty(sections)) = {}

====
